---------------------------- MODULE Spec2Model ----------------------------
(***************************************************************************)
(* A model of planar's BoundingBox (box.py) and of the free-standing       *)
(* helpers of util.py.                                                      *)
(*                                                                          *)
(* Numbers.  Coordinates are Python floats.  The model draws them from an  *)
(* integer grid, on which +, -, *, comparison and min/max are exact, as    *)
(* they are for doubles of this size.  A halving (amount / 2.0,            *)
(* width * 0.5) is exact for doubles; here it is taken of even numbers     *)
(* only, so that it is exact too.                                           *)
(*                                                                          *)
(* Distances.  A distance d >= 0 is held as its square d*d, which decides  *)
(* d; a value the code returns without a square root (a difference of two  *)
(* coordinates) is held as Lin(v), which keeps the sign of v.              *)
(***************************************************************************)
EXTENDS Integers, Sequences, FiniteSets, TLC

VARIABLES
    box, last,              \* construction: the box built last, and how
    qbox, qpts, dscalar, dbatch,  \* distance queries on one box
    tiling, probe,          \* a tiling by boxes, and the last containment probe
    ucall, uret,            \* a call of a helper of util.py, and what it returned
    objs, calls, acc, ret,  \* instances with their __dict__, and property accesses
    lbox, lcall, lres       \* a distance query of a box against a line-like primitive

boxVars   == <<box, last>>
queryVars == <<qbox, qpts, dscalar, dbatch>>
tileVars  == <<tiling, probe>>
utilVars  == <<ucall, uret>>
cacheVars == <<objs, calls, acc, ret>>
lrosVars  == <<lbox, lcall, lres>>
vars      == <<boxVars, queryVars, tileVars, utilVars, cacheVars, lrosVars>>

\* Largest coordinate of the grid the inputs are drawn from.
MaxCoord == 2
\* Largest half-amount (half-width) handed to inflate and from_center.
MaxHalf == 2
\* Side of the square region that is tiled, and the most boxes in a tiling.
TileSide == 3
MaxTiles == 4
\* Largest angle, in degrees, handed to signed_angle_diff.
MaxAngle == 180
\* Most reads of one cached property of one instance.
MaxAccess == 2
\* Largest distance a line-like primitive reports to an edge.
MaxDist == 1

\* Python's None, an attribute that was never set, and a list
None == [py |-> "None"]
Unset == [py |-> "unset"]
PyList(items) == [py |-> "list", items |-> items]

Coords == 0..MaxCoord
Abs(v) == IF v < 0 THEN -v ELSE v

SeqMin(s) == CHOOSE m \in {s[i] : i \in DOMAIN s} : \A i \in DOMAIN s : m <= s[i]
SeqMax(s) == CHOOSE m \in {s[i] : i \in DOMAIN s} : \A i \in DOMAIN s : m >= s[i]

(***************************************************************************)
(* planar.Vec2 and planar.Affine, the primitives box.py is handed.         *)
(***************************************************************************)
Vec2(x, y) == [x |-> x, y |-> y]
VecAdd(u, v) == Vec2(u.x + v.x, u.y + v.y)
VecSub(u, v) == Vec2(u.x - v.x, u.y - v.y)
\* Vec2 / 2.0, of a vector with even components
VecHalf(v) == Vec2(v.x \div 2, v.y \div 2)
\* point * affine: (x*a + y*b + c, x*d + y*e + f)
VecMulAffine(p, t) == Vec2(p.x * t.a + p.y * t.b + t.c, p.x * t.d + p.y * t.e + t.f)
Affine(a, b, c, d, e, f) == [a |-> a, b |-> b, c |-> c, d |-> d, e |-> e, f |-> f]
\* Affine.is_rectilinear: a box stays axis-aligned under the transform
is_rectilinear(t) == (t.a = 0 /\ t.e = 0) \/ (t.b = 0 /\ t.d = 0)

Grid == {Vec2(x, y) : x \in Coords, y \in Coords}
InGrid(p) == p.x \in Coords /\ p.y \in Coords
\* the point collections handed to the constructors: one or two points
PointSeqs == {<<p>> : p \in Grid} \cup {<<p, q>> : p \in Grid, q \in Grid}

(***************************************************************************)
(* BoundingBox: construction.                                               *)
(* A box is its _min, its _max and its _edge_segments attribute, which     *)
(* _init_min_max sets to None and from_shapes never sets (Unset).          *)
(***************************************************************************)
Box(mn, mx, edges) == [min |-> mn, max |-> mx, edge_attr |-> edges]

\* a slip of _init_min_max: the first and the last point taken as the corners
init_min_max_unsorted(points) ==
    Box(points[1], points[Len(points)], None)

\* xs.min(), ys.min(), xs.max(), ys.max() of array(points).T
init_min_max(points) ==
    LET xs == [i \in DOMAIN points |-> points[i].x]
        ys == [i \in DOMAIN points |-> points[i].y]
    IN  Box(Vec2(SeqMin(xs), SeqMin(ys)), Vec2(SeqMax(xs), SeqMax(ys)), None)

\* BoundingBox(points)
BoundingBox(points) == init_min_max(points)

from_points(points) == init_min_max(points)

\* the running min of the min corners and max of the max corners, shape by shape
RECURSIVE from_shapes_loop(_, _, _, _)
from_shapes_loop(shapes, i, mn, mx) ==
    IF i > Len(shapes) THEN Box(mn, mx, Unset)
    ELSE LET lo == shapes[i].min
             hi == shapes[i].max
             mn1 == Vec2(IF lo.x < mn.x THEN lo.x ELSE mn.x,
                         IF lo.y < mn.y THEN lo.y ELSE mn.y)
             mx1 == Vec2(IF hi.x > mx.x THEN hi.x ELSE mx.x,
                         IF hi.y > mx.y THEN hi.y ELSE mx.y)
         IN  from_shapes_loop(shapes, i + 1, mn1, mx1)

\* shapes is a non-empty sequence of boxes (a box is its own bounding_box)
from_shapes(shapes) ==
    from_shapes_loop(shapes, 2, shapes[1].min, shapes[1].max)

\* half_w = width * 0.5, half_h = height * 0.5, of an even width and height
from_center(center, width, height) ==
    LET half_w == width \div 2
        half_h == height \div 2
    IN  from_points(<<Vec2(center.x - half_w, center.y - half_h),
                      Vec2(center.x + half_w, center.y + half_h)>>)

\* an amount is a scalar or a two-component vector; dv is amount / 2.0
ScalarAmount(v) == [kind |-> "scalar", v |-> v]
VectorAmount(x, y) == [kind |-> "vector", x |-> x, y |-> y]
AmountVec(amount) ==
    IF amount.kind = "vector" THEN Vec2(amount.x, amount.y)
    ELSE Vec2(amount.v, amount.v)

\* a slip of inflate: the whole amount added on each side
inflate_unhalved(b, amount) ==
    LET dv == AmountVec(amount)
    IN  from_points(<<VecSub(b.min, dv), VecAdd(b.max, dv)>>)

inflate(b, amount) ==
    LET dv == VecHalf(AmountVec(amount))
    IN  from_points(<<VecSub(b.min, dv), VecAdd(b.max, dv)>>)

\* to_polygon(): the four vertices, in order
to_polygon(b) ==
    [kind |-> "polygon",
     verts |-> <<b.min, Vec2(b.min.x, b.max.y), b.max, Vec2(b.max.x, b.min.y)>>]

\* box * other, for an other that has is_rectilinear
mul(b, other) ==
    IF is_rectilinear(other)
    THEN from_points(<<VecMulAffine(b.min, other), VecMulAffine(b.max, other)>>)
    ELSE LET p == to_polygon(b)
         IN  [p EXCEPT !.verts = [i \in DOMAIN p.verts |-> VecMulAffine(p.verts[i], other)]]

IsBox(v) == "min" \in DOMAIN v

\* the amounts, widths and heights drawn: even numbers, negative ones too
Amounts == {2 * h : h \in -MaxHalf..MaxHalf}
\* an amount for inflate: a scalar, or one number per axis
AmountInputs == {ScalarAmount(v) : v \in Amounts}
                \cup {VectorAmount(x, y) : x \in Amounts, y \in Amounts}
\* the transforms drawn: identity, translation, axis flips, a half turn and an
\* axis swap (all rectilinear), and a shear (not rectilinear)
Transforms ==
    { Affine(1, 0, 0, 0, 1, 0), Affine(1, 0, 1, 0, 1, 0),
      Affine(-1, 0, MaxCoord, 0, 1, 0), Affine(1, 0, 0, 0, -1, MaxCoord),
      Affine(-1, 0, MaxCoord, 0, -1, MaxCoord), Affine(0, 1, 0, 1, 0, 0),
      Affine(1, 1, 0, 0, 1, 0) }

BoxInGrid(b) == InGrid(b.min) /\ InGrid(b.max)

NoBox == [kind |-> "none"]
NoOp == [op |-> "none"]
QueryIdle == qbox = NoBox /\ qpts = <<>> /\ dscalar = <<>> /\ dbatch = <<>>
NoProbe == [kind |-> "none"]
TileIdle == tiling = {} /\ probe = NoProbe
NoCall == [fn |-> "none"]
UtilIdle == ucall = NoCall /\ uret = <<>>
CacheIdle == objs = <<>> /\ calls = <<>> /\ acc = <<>> /\ ret = NoCall
LrosIdle == lbox = NoBox /\ lcall = NoCall /\ lres = <<>>

Construct ==
    \E points \in PointSeqs :
        /\ BoxInGrid(BoundingBox(points))
        /\ box' = BoundingBox(points)
        /\ last' = [op |-> "init"]
        /\ UNCHANGED <<queryVars, tileVars, utilVars, cacheVars, lrosVars>>

FromPoints ==
    \E points \in PointSeqs :
        /\ BoxInGrid(from_points(points))
        /\ box' = from_points(points)
        /\ last' = [op |-> "from_points"]
        /\ UNCHANGED <<queryVars, tileVars, utilVars, cacheVars, lrosVars>>

FromCenter ==
    \E center \in Grid, width \in Amounts, height \in Amounts :
        /\ BoxInGrid(from_center(center, width, height))
        /\ box' = from_center(center, width, height)
        /\ last' = [op |-> "from_center", width |-> width, height |-> height]
        /\ UNCHANGED <<queryVars, tileVars, utilVars, cacheVars, lrosVars>>

\* the shapes are boxes built before: the current one, and the one it came from
FromShapes ==
    /\ IsBox(box)
    /\ \E shapes \in {<<box>>} \cup
            (IF last.op = "inflate" THEN {<<box, last.src>>, <<last.src, box>>} ELSE {}) :
          /\ BoxInGrid(from_shapes(shapes))
          /\ box' = from_shapes(shapes)
          /\ last' = [op |-> "from_shapes", n |-> Len(shapes)]
          /\ UNCHANGED <<queryVars, tileVars, utilVars, cacheVars, lrosVars>>

Inflate ==
    /\ IsBox(box)
    /\ \E amount \in AmountInputs :
          /\ BoxInGrid(inflate(box, amount))
          /\ box' = inflate(box, amount)
          /\ last' = [op |-> "inflate", src |-> box, amount |-> amount]
          /\ UNCHANGED <<queryVars, tileVars, utilVars, cacheVars, lrosVars>>

\* a transform that is not rectilinear yields a polygon, and no box is built
Mul ==
    /\ IsBox(box)
    /\ \E other \in Transforms :
          /\ IsBox(mul(box, other))
          /\ BoxInGrid(mul(box, other))
          /\ box' = mul(box, other)
          /\ last' = [op |-> "mul", other |-> other]
          /\ UNCHANGED <<queryVars, tileVars, utilVars, cacheVars, lrosVars>>

BoxInit == box = NoBox /\ last = NoOp /\ QueryIdle /\ TileIdle /\ UtilIdle /\ CacheIdle /\ LrosIdle
BoxNext == Construct \/ FromPoints \/ FromCenter \/ FromShapes \/ Inflate \/ Mul
SpecBox == BoxInit /\ [][BoxNext]_vars

MinLeMax(b) == b.min.x <= b.max.x /\ b.min.y <= b.max.y

\* C3: every box built by any sequence of the constructing operations has
\* min_point.x <= max_point.x and min_point.y <= max_point.y.
C3_MinLeMax == IsBox(box) => MinLeMax(box)

\* inflate has shrunk the source box by more than its extent, on an axis
OverShrunk ==
    /\ last.op = "inflate"
    /\ \/ AmountVec(last.amount).x < -(last.src.max.x - last.src.min.x)
       \/ AmountVec(last.amount).y < -(last.src.max.y - last.src.min.y)

\* a box with width was shrunk by more than its extent, and the box that
\* inflate built has its corners in order
C3_Witness ==
    /\ OverShrunk
    /\ last.src.min.x < last.src.max.x
    /\ MinLeMax(box)

AxisInflated(lo, hi, d, rlo, rhi) ==
    IF 2 * d >= -(hi - lo)
    THEN rlo = lo - d /\ rhi = hi + d
    ELSE rlo = hi + d /\ rhi = lo - d

Lin(v) == IF v < 0 THEN -(v * v) ELSE v * v
\* numpy.hypot(a, b), squared
hypot(a, b) == a * a + b * b
\* Vec2.distance_to, squared
Vec2_distance_to(p, q) == (p.x - q.x) * (p.x - q.x) + (p.y - q.y) * (p.y - q.y)

\* a slip of distance_to: the region left of and above the box measured to _min
distance_to_wrong_corner(b, point) ==
    LET lt_min_x == point.x < b.min.x
        le_max_x == point.x <= b.max.x
        lt_min_y == point.y < b.min.y
        le_max_y == point.y <= b.max.y
    IN  IF lt_min_x
        THEN IF lt_min_y THEN Vec2_distance_to(b.min, point)
             ELSE IF le_max_y THEN Lin(b.min.x - point.x)
             ELSE Vec2_distance_to(b.min, point)
        ELSE IF le_max_x
        THEN IF lt_min_y THEN Lin(b.min.y - point.y)
             ELSE IF le_max_y THEN Lin(0)
             ELSE Lin(point.y - b.max.y)
        ELSE IF lt_min_y THEN Vec2_distance_to(Vec2(b.max.x, b.min.y), point)
             ELSE IF le_max_y THEN Lin(point.x - b.max.x)
             ELSE Vec2_distance_to(b.max, point)

\* the nine regions, branch by branch
distance_to(b, point) ==
    LET lt_min_x == point.x < b.min.x
        le_max_x == point.x <= b.max.x
        lt_min_y == point.y < b.min.y
        le_max_y == point.y <= b.max.y
    IN  IF lt_min_x
        THEN IF lt_min_y THEN Vec2_distance_to(b.min, point)
             ELSE IF le_max_y THEN Lin(b.min.x - point.x)
             ELSE Vec2_distance_to(Vec2(b.min.x, b.max.y), point)
        ELSE IF le_max_x
        THEN IF lt_min_y THEN Lin(b.min.y - point.y)
             ELSE IF le_max_y THEN Lin(0)
             ELSE Lin(point.y - b.max.y)
        ELSE IF lt_min_y THEN Vec2_distance_to(Vec2(b.max.x, b.min.y), point)
             ELSE IF le_max_y THEN Lin(point.x - b.max.x)
             ELSE Vec2_distance_to(b.max, point)

\* one column of ds[argmin(npabs(ds), axis=0), r], then ds[ds < 0] = 0:
\* argmin takes the first row on a tie
ClampedGap(to_min, to_max) ==
    LET d == IF Abs(to_min) <= Abs(to_max) THEN to_min ELSE to_max
    IN  IF d < 0 THEN 0 ELSE d

distance_to_points(b, points) ==
    [i \in DOMAIN points |->
        LET xds == ClampedGap(b.min.x - points[i].x, points[i].x - b.max.x)
            yds == ClampedGap(b.min.y - points[i].y, points[i].y - b.max.y)
        IN  hypot(xds, yds)]

\* the boxes queried: every box BoundingBox builds from grid points
BoxIdle == box = NoBox /\ last = NoOp

QueryInit ==
    /\ qbox \in {BoundingBox(points) : points \in PointSeqs}
    /\ qpts \in PointSeqs
    /\ dscalar = [i \in DOMAIN qpts |-> <<>>]
    /\ dbatch = <<>>
    /\ BoxIdle /\ TileIdle /\ UtilIdle /\ CacheIdle /\ LrosIdle

\* qbox.distance_to(qpts[i]), for a point not asked yet
DistanceTo ==
    \E i \in DOMAIN qpts :
        /\ dscalar[i] = <<>>
        /\ dscalar' = [dscalar EXCEPT ![i] = <<distance_to(qbox, qpts[i])>>]
        /\ UNCHANGED <<qbox, qpts, dbatch, boxVars, tileVars, utilVars, cacheVars, lrosVars>>

\* qbox.distance_to_points(qpts)
DistanceToPoints ==
    /\ dbatch = <<>>
    /\ dbatch' = distance_to_points(qbox, qpts)
    /\ UNCHANGED <<qbox, qpts, dscalar, boxVars, tileVars, utilVars, cacheVars, lrosVars>>

QueryNext == DistanceTo \/ DistanceToPoints
SpecQuery == QueryInit /\ [][QueryNext]_vars

\* C1: distance_to_points returns for every point the distance that
\* distance_to returns for it, for every box, boxes of zero width or height
\* included.
C1_BatchIsScalar ==
    \A i \in DOMAIN qpts :
        (dbatch # <<>> /\ dscalar[i] # <<>>) => dbatch[i] = dscalar[i][1]

InClosedBox(b, p) ==
    b.min.x <= p.x /\ p.x <= b.max.x /\ b.min.y <= p.y /\ p.y <= b.max.y
OutsideX(b, p) == p.x < b.min.x \/ p.x > b.max.x
OutsideY(b, p) == p.y < b.min.y \/ p.y > b.max.y
Corners(b) == {b.min, b.max, Vec2(b.min.x, b.max.y), Vec2(b.max.x, b.min.y)}
SetMin(S) == CHOOSE m \in S : \A n \in S : m <= n
\* the squared distance from p to the closest point of the closed rectangle
\* (for a grid point p that closest point is a grid point)
ClosestSq(b, p) ==
    SetMin({Vec2_distance_to(Vec2(x, y), p) :
                x \in b.min.x..b.max.x, y \in b.min.y..b.max.y})

\* how far v lies outside the interval lo..hi
Gap(lo, hi, v) == IF v < lo THEN lo - v ELSE IF v > hi THEN v - hi ELSE 0

\* C2: distance_to is zero inside and on the closed rectangle, otherwise the
\* distance to the closest point of the rectangle: to the nearest corner
\* when outside on both axes, the gap along the outside axis when outside
\* on one.
C2_DistanceTo ==
    \A i \in DOMAIN qpts :
        dscalar[i] # <<>> =>
            LET d == dscalar[i][1]
                p == qpts[i]
            IN  /\ d = ClosestSq(qbox, p)
                /\ InClosedBox(qbox, p) <=> d = 0
                /\ (OutsideX(qbox, p) /\ OutsideY(qbox, p)) =>
                       d = SetMin({Vec2_distance_to(c, p) : c \in Corners(qbox)})
                /\ (OutsideX(qbox, p) /\ ~OutsideY(qbox, p)) =>
                       d = Gap(qbox.min.x, qbox.max.x, p.x) * Gap(qbox.min.x, qbox.max.x, p.x)
                /\ (OutsideY(qbox, p) /\ ~OutsideX(qbox, p)) =>
                       d = Gap(qbox.min.y, qbox.max.y, p.y) * Gap(qbox.min.y, qbox.max.y, p.y)

\* distance_to has answered for a point left of and above a box with area,
\* and for a point on its boundary
C2_Witness ==
    /\ Len(qpts) = 2
    /\ dscalar[1] # <<>> /\ dscalar[2] # <<>>
    /\ qbox.min.x < qbox.max.x /\ qbox.min.y < qbox.max.y
    /\ qpts[1].x < qbox.min.x /\ qpts[1].y > qbox.max.y
    /\ dscalar[1][1] = 2
    /\ qpts[2] = qbox.max
    /\ dscalar[2][1] = 0

(***************************************************************************)
(* BoundingBox: containment, and a tiling of a region by adjacent boxes.   *)
(***************************************************************************)
\* a slip of contains_point: the max side of x taken as inside as well
contains_point_closed(b, point) ==
    /\ b.min.x <= point.x /\ point.x <= b.max.x
    /\ b.min.y < point.y /\ point.y <= b.max.y

contains_point(b, point) ==
    /\ b.min.x <= point.x /\ point.x < b.max.x
    /\ b.min.y < point.y /\ point.y <= b.max.y

\* numpy.logical_and
land(a, c) == a /\ c

contains_points(b, points) ==
    [i \in DOMAIN points |->
        land(land(b.min.x <= points[i].x, points[i].x < b.max.x),
             land(b.min.y < points[i].y, points[i].y <= b.max.y))]

TileCoords == 0..TileSide
TileGrid == {Vec2(x, y) : x \in TileCoords, y \in TileCoords}

TileInit ==
    /\ tiling = {from_points(<<Vec2(0, 0), Vec2(TileSide, TileSide)>>)}
    /\ probe = NoProbe
    /\ BoxIdle /\ QueryIdle /\ UtilIdle /\ CacheIdle /\ LrosIdle

\* one box of the tiling is replaced by two that share the edge x = c
SplitX ==
    /\ Cardinality(tiling) < MaxTiles
    /\ \E b \in tiling, c \in TileCoords :
          /\ b.min.x < c /\ c < b.max.x
          /\ tiling' = (tiling \ {b}) \cup
                 { from_points(<<b.min, Vec2(c, b.max.y)>>),
                   from_points(<<Vec2(c, b.min.y), b.max>>) }
          /\ probe' = NoProbe
          /\ UNCHANGED <<boxVars, queryVars, utilVars, cacheVars, lrosVars>>

\* one box of the tiling is replaced by two that share the edge y = c
SplitY ==
    /\ Cardinality(tiling) < MaxTiles
    /\ \E b \in tiling, c \in TileCoords :
          /\ b.min.y < c /\ c < b.max.y
          /\ tiling' = (tiling \ {b}) \cup
                 { from_points(<<b.min, Vec2(b.max.x, c)>>),
                   from_points(<<Vec2(b.min.x, c), b.max>>) }
          /\ probe' = NoProbe
          /\ UNCHANGED <<boxVars, queryVars, utilVars, cacheVars, lrosVars>>

\* every box of the tiling is asked for the point, by contains_point and by
\* contains_points
Probe ==
    \E point \in TileGrid :
        /\ probe' = [kind |-> "probe", point |-> point,
                     scalar |-> {b \in tiling : contains_point(b, point)},
                     batch |-> {b \in tiling : contains_points(b, <<point>>)[1]}]
        /\ UNCHANGED <<tiling, boxVars, queryVars, utilVars, cacheVars, lrosVars>>

TileNext == SplitX \/ SplitY \/ Probe
SpecTile == TileInit /\ [][TileNext]_vars

OnBoundary(b, p) ==
    /\ InClosedBox(b, p)
    /\ p.x \in {b.min.x, b.max.x} \/ p.y \in {b.min.y, b.max.y}
\* the point lies on a boundary that two boxes of the tiling share
Shared(p) ==
    \E b1 \in tiling, b2 \in tiling : b1 # b2 /\ OnBoundary(b1, p) /\ OnBoundary(b2, p)

\* C5, as claimed: a point on a boundary shared by adjacent boxes of a
\* tiling is contained by exactly one box, for contains_point and for
\* contains_points alike.
C5_AsClaimed ==
    (probe # NoProbe /\ Shared(probe.point)) =>
        Cardinality(probe.scalar) = 1 /\ Cardinality(probe.batch) = 1

\* C5, amended: such a point is contained by at most one box: by exactly
\* one, unless it lies on the outer max-x edge or the outer min-y edge of
\* the tiled region, where no box contains it.
C5_Tiling ==
    (probe # NoProbe /\ Shared(probe.point)) =>
        LET n == IF probe.point.x < TileSide /\ probe.point.y > 0 THEN 1 ELSE 0
        IN  Cardinality(probe.scalar) = n /\ Cardinality(probe.batch) = n

\* a probe of a point where four boxes meet, and one box answers
C5_Witness ==
    /\ probe # NoProbe
    /\ Cardinality({b \in tiling : OnBoundary(b, probe.point)}) = 4
    /\ Cardinality(probe.scalar) = 1
    /\ probe.batch = probe.scalar

(***************************************************************************)
(* util.py: the orientation test and the segment intersection tests.       *)
(***************************************************************************)
\* a Python bool compared with a float counts as 1 or 0
BoolAsNumber(t) == IF t THEN 1 ELSE 0

\* ccw is the outcome of a comparison, and the sign is taken of that
counterclockwise(A, B, C) ==
    LET ccw == BoolAsNumber((C.y - A.y) * (B.x - A.x) > (B.y - A.y) * (C.x - A.x))
    IN  IF ccw > 0 THEN 1 ELSE IF ccw < 0 THEN -1 ELSE 0

intersects(A, B, C, D) ==
    /\ counterclockwise(A, C, D) # counterclockwise(B, C, D)
    /\ counterclockwise(A, B, C) # counterclockwise(A, B, D)

\* a segment object, and its points property
Segment(p, q) == [points |-> <<p, q>>]
segments_intersect(seg1, seg2) ==
    LET A == seg1.points[1]
        B == seg1.points[2]
        C == seg2.points[1]
        D == seg2.points[2]
    IN  intersects(A, B, C, D)

OrientInit ==
    /\ ucall \in
          {[fn |-> "counterclockwise", A |-> A, B |-> B, C |-> C] :
              A \in Grid, B \in Grid, C \in Grid}
          \cup {[fn |-> "intersects", A |-> A, B |-> B, C |-> C, D |-> D] :
              A \in Grid, B \in Grid, C \in Grid, D \in Grid}
          \cup {[fn |-> "segments_intersect", seg1 |-> Segment(A, B), seg2 |-> Segment(C, D)] :
              A \in Grid, B \in Grid, C \in Grid, D \in Grid}
    /\ uret = <<>>
    /\ BoxIdle /\ QueryIdle /\ TileIdle /\ CacheIdle /\ LrosIdle

Counterclockwise ==
    /\ ucall.fn = "counterclockwise" /\ uret = <<>>
    /\ uret' = <<counterclockwise(ucall.A, ucall.B, ucall.C)>>
    /\ UNCHANGED <<ucall, boxVars, queryVars, tileVars, cacheVars, lrosVars>>

Intersects ==
    /\ ucall.fn = "intersects" /\ uret = <<>>
    /\ uret' = <<intersects(ucall.A, ucall.B, ucall.C, ucall.D)>>
    /\ UNCHANGED <<ucall, boxVars, queryVars, tileVars, cacheVars, lrosVars>>

SegmentsIntersect ==
    /\ ucall.fn = "segments_intersect" /\ uret = <<>>
    /\ uret' = <<segments_intersect(ucall.seg1, ucall.seg2)>>
    /\ UNCHANGED <<ucall, boxVars, queryVars, tileVars, cacheVars, lrosVars>>

OrientNext == Counterclockwise \/ Intersects \/ SegmentsIntersect
SpecOrient == OrientInit /\ [][OrientNext]_vars

Sign(v) == IF v > 0 THEN 1 ELSE IF v < 0 THEN -1 ELSE 0
\* (B - A) x (C - A): positive when the turn from A->B to A->C is
\* counterclockwise, negative when it is clockwise, zero when collinear
Cross(A, B, C) == (B.x - A.x) * (C.y - A.y) - (B.y - A.y) * (C.x - A.x)

\* C6: counterclockwise(A, B, C) is +1 for a counterclockwise turn, -1 for
\* a clockwise turn and 0 for collinear points.
C6_Orientation ==
    (ucall.fn = "counterclockwise" /\ uret # <<>>) =>
        uret[1] = Sign(Cross(ucall.A, ucall.B, ucall.C))

\* AB and CD cross at one point interior to both: C and D lie strictly on
\* opposite sides of AB, and A and B strictly on opposite sides of CD
ProperlyCross(A, B, C, D) ==
    /\ Sign(Cross(A, B, C)) * Sign(Cross(A, B, D)) = -1
    /\ Sign(Cross(C, D, A)) * Sign(Cross(C, D, B)) = -1

\* C7: intersects (and segments_intersect) is true exactly when the two
\* segments properly cross; false for parallel, collinear, disjoint and
\* merely touching segments.
C7_ProperCrossing ==
    /\ (ucall.fn = "intersects" /\ uret # <<>>) =>
          (uret[1] <=> ProperlyCross(ucall.A, ucall.B, ucall.C, ucall.D))
    /\ (ucall.fn = "segments_intersect" /\ uret # <<>>) =>
          (uret[1] <=> ProperlyCross(ucall.seg1.points[1], ucall.seg1.points[2],
                                     ucall.seg2.points[1], ucall.seg2.points[2]))

(***************************************************************************)
(* util.py: signed_angle_diff, on whole degrees.                           *)
(***************************************************************************)
\* a slip of signed_angle_diff: the half turn not added before the wrap
signed_angle_diff_late(x, y) == ((x - y) % 360) - 180

signed_angle_diff(x, y) == ((x - y + 180) % 360) - 180

Angles == -MaxAngle..MaxAngle

AngleInit ==
    /\ ucall \in {[fn |-> "signed_angle_diff", x |-> x, y |-> y] : x \in Angles, y \in Angles}
    /\ uret = <<>>
    /\ BoxIdle /\ QueryIdle /\ TileIdle /\ CacheIdle /\ LrosIdle

SignedAngleDiff ==
    /\ ucall.fn = "signed_angle_diff" /\ uret = <<>>
    /\ uret' = <<signed_angle_diff(ucall.x, ucall.y)>>
    /\ UNCHANGED <<ucall, boxVars, queryVars, tileVars, cacheVars, lrosVars>>

AngleNext == SignedAngleDiff
SpecAngle == AngleInit /\ [][AngleNext]_vars

\* C8, as claimed: the result lies in (-180, 180] and is congruent to
\* a - b modulo 360.
C8_AsClaimed ==
    uret # <<>> =>
        /\ uret[1] > -180 /\ uret[1] <= 180
        /\ (uret[1] - (ucall.x - ucall.y)) % 360 = 0

\* C8, amended: the result lies in [-180, 180): at least -180 and strictly
\* below 180, and is congruent to a - b modulo 360.
C8_Range ==
    uret # <<>> =>
        /\ uret[1] >= -180 /\ uret[1] < 180
        /\ (uret[1] - (ucall.x - ucall.y)) % 360 = 0

\* a difference of half a turn, 90 - (-90), comes out as -180
C8_Witness ==
    /\ uret # <<>>
    /\ ucall.x = 90 /\ ucall.y = -90
    /\ uret[1] = -180

(***************************************************************************)
(* util.py: cached_property, and the two properties of BoundingBox that    *)
(* use it.  An instance is its box and its __dict__, a function from the   *)
(* names cached so far to their values.                                     *)
(***************************************************************************)
\* (self._min + self._max) / 2.0, held by its doubled components
center(self) ==
    [twice_x |-> self.box.min.x + self.box.max.x,
     twice_y |-> self.box.min.y + self.box.max.y]

\* width, height = self._max - self._min; not width or not height
is_empty(self) ==
    LET d == VecSub(self.box.max, self.box.min)
    IN  d.x = 0 \/ d.y = 0

PropertyNames == {"center", "is_empty"}
\* func(self), for the func the getter wraps under that name
func(name, self) == IF name = "center" THEN center(self) ELSE is_empty(self)

\* a function with one more key
Store(dict, name, value) ==
    [k \in DOMAIN dict \cup {name} |-> IF k = name THEN value ELSE dict[k]]

\* a slip of getter: the value is computed and returned, and not stored
getter_unstored(self, name) ==
    IF name \in DOMAIN self.dict
    THEN [value |-> self.dict[name], dict |-> self.dict, computed |-> FALSE]
    ELSE [value |-> func(name, self), dict |-> self.dict, computed |-> TRUE]

\* try: return self.__dict__[name]
\* except KeyError: self.__dict__[name] = value = func(self); return value
getter(self, name) ==
    IF name \in DOMAIN self.dict
    THEN [value |-> self.dict[name], dict |-> self.dict, computed |-> FALSE]
    ELSE LET value == func(name, self)
         IN  [value |-> value, dict |-> Store(self.dict, name, value), computed |-> TRUE]

\* two instances, so that a value can be told from the other instance's
Insts == {1, 2}
EmptyDict == [k \in {} |-> 0]
\* the boxes of the instances: with and without area
CacheBoxes == {BoundingBox(<<Vec2(0, 0), Vec2(w, h)>>) : w \in 0..1, h \in 0..1}

CacheInit ==
    /\ objs \in [Insts -> {[box |-> b, dict |-> EmptyDict] : b \in CacheBoxes}]
    /\ calls = [i \in Insts |-> [n \in PropertyNames |-> 0]]
    /\ acc = [i \in Insts |-> [n \in PropertyNames |-> 0]]
    /\ ret = NoCall
    /\ BoxIdle /\ QueryIdle /\ TileIdle /\ UtilIdle /\ LrosIdle

\* objs[i].<name> is read; calls counts the runs of the wrapped computation
Access ==
    \E i \in Insts, name \in PropertyNames :
        /\ acc[i][name] < MaxAccess
        /\ LET got == getter(objs[i], name)
           IN  /\ objs' = [objs EXCEPT ![i].dict = got.dict]
               /\ calls' = [calls EXCEPT ![i][name] = @ + BoolAsNumber(got.computed)]
               /\ ret' = [fn |-> name, inst |-> i, value |-> got.value,
                          computed |-> got.computed]
        /\ acc' = [acc EXCEPT ![i][name] = @ + 1]
        /\ UNCHANGED <<boxVars, queryVars, tileVars, utilVars, lrosVars>>

CacheNext == Access
SpecCache == CacheInit /\ [][CacheNext]_vars

\* C9: the computation behind a cached property runs exactly once per
\* instance, on the first access; a later access returns the stored value
\* without computing; the value returned is the instance's own.
C9_ComputedOnce ==
    /\ \A i \in Insts, name \in PropertyNames :
          calls[i][name] = IF acc[i][name] > 0 THEN 1 ELSE 0
    /\ ret # NoCall =>
          /\ ret.computed <=> acc[ret.inst][ret.fn] = 1
          /\ ret.value = func(ret.fn, objs[ret.inst])
          /\ ret.fn \in DOMAIN objs[ret.inst].dict
          /\ ret.value = objs[ret.inst].dict[ret.fn]

\* center was read twice on instance 1, then on instance 2, whose center
\* is another
C9_Witness ==
    /\ ret # NoCall
    /\ acc[1]["center"] = 2 /\ calls[1]["center"] = 1
    /\ ret.inst = 2 /\ ret.fn = "center"
    /\ ret.value # objs[1].dict["center"]

(***************************************************************************)
(* BoundingBox: distance to a line, a ray or a segment.                     *)
(* The primitive is known to the box through distance_to_segment alone,    *)
(* so it is drawn as what it answers for each edge of the box.             *)
(***************************************************************************)
Return(v) == [raised |-> "", value |-> v]
Raise(exc) == [raised |-> exc]

\* planar.LineSegment(anchor, vector)
LineSegment(anchor, vector) == [anchor |-> anchor, vector |-> vector]

\* the four edges min -> (min.x, max.y) -> max -> (max.x, min.y) -> min
EdgeList(b) ==
    LET verts == <<b.min, Vec2(b.min.x, b.max.y), b.max, Vec2(b.max.x, b.min.y), b.min>>
    IN  [i \in 1..4 |-> LineSegment(verts[i], VecSub(verts[i + 1], verts[i]))]

\* the edge_segments property: reads self._edge_segments (an AttributeError
\* where it was never set), fills it on first use, and returns the list
edge_segments(b) ==
    IF b.edge_attr = Unset THEN [raised |-> "AttributeError", self |-> b]
    ELSE LET filled == IF b.edge_attr = None
                       THEN [b EXCEPT !.edge_attr = PyList(EdgeList(b))]
                       ELSE b
         IN  [raised |-> "", value |-> filled.edge_attr, self |-> filled]

\* v(): only a callable can be called
py_call(v) ==
    IF v.py = "callable" THEN Return(v.result) ELSE Raise("TypeError")

\* lros.distance_to_segment(edge)
lros_distance_to_segment(lros, edge) == lros.dist[edge]

\* min_dist over the edges, in order; Inf is float('inf')
Inf == [py |-> "inf"]
RECURSIVE min_dist_loop(_, _, _, _)
min_dist_loop(lros, edges, i, min_dist) ==
    IF i > Len(edges) THEN min_dist
    ELSE LET dist == lros_distance_to_segment(lros, edges[i])
         IN  min_dist_loop(lros, edges, i + 1,
                           IF min_dist = Inf \/ dist < min_dist THEN dist ELSE min_dist)

\* for edge in self.edge_segments(): the property is read, and what it
\* returns is called
distance_to_line_ray_or_segment(b, lros) ==
    LET got == edge_segments(b)
    IN  IF got.raised # "" THEN [result |-> Raise(got.raised), self |-> got.self]
        ELSE LET edges == py_call(got.value)
             IN  IF edges.raised # ""
                 THEN [result |-> Raise(edges.raised), self |-> got.self]
                 ELSE [result |-> Return(min_dist_loop(lros, edges.value.items, 1, Inf)),
                       self |-> got.self]

distance_to_line(b, line) == distance_to_line_ray_or_segment(b, line)
distance_to_ray(b, ray) == distance_to_line_ray_or_segment(b, ray)
distance_to_segment(b, segment) == distance_to_line_ray_or_segment(b, segment)

EdgeSet(b) == {EdgeList(b)[i] : i \in 1..4}
\* the boxes queried: built by the constructor, by from_points, by
\* from_center, by from_shapes and by inflate
LrosBoxes ==
    LET built == {BoundingBox(points) : points \in PointSeqs}
    IN  built
        \cup {from_points(points) : points \in PointSeqs}
        \cup {from_center(Vec2(1, 1), w, h) : w \in {0, 2}, h \in {0, 2}}
        \cup {from_shapes(<<b>>) : b \in built}
        \cup {inflate(BoundingBox(<<Vec2(1, 1)>>), ScalarAmount(2))}

LrosInit ==
    /\ lbox \in LrosBoxes
    /\ lcall \in {[fn |-> f, lros |-> [kind |-> f, dist |-> d]] :
                     f \in {"line", "ray", "segment"},
                     d \in [EdgeSet(lbox) -> 0..MaxDist]}
    /\ lres = <<>>
    /\ BoxIdle /\ QueryIdle /\ TileIdle /\ UtilIdle /\ CacheIdle

DistanceToLine ==
    /\ lcall.fn = "line" /\ lres = <<>>
    /\ lres' = <<distance_to_line(lbox, lcall.lros).result>>
    /\ lbox' = distance_to_line(lbox, lcall.lros).self
    /\ UNCHANGED <<lcall, boxVars, queryVars, tileVars, utilVars, cacheVars>>

DistanceToRay ==
    /\ lcall.fn = "ray" /\ lres = <<>>
    /\ lres' = <<distance_to_ray(lbox, lcall.lros).result>>
    /\ lbox' = distance_to_ray(lbox, lcall.lros).self
    /\ UNCHANGED <<lcall, boxVars, queryVars, tileVars, utilVars, cacheVars>>

DistanceToSegment ==
    /\ lcall.fn = "segment" /\ lres = <<>>
    /\ lres' = <<distance_to_segment(lbox, lcall.lros).result>>
    /\ lbox' = distance_to_segment(lbox, lcall.lros).self
    /\ UNCHANGED <<lcall, boxVars, queryVars, tileVars, utilVars, cacheVars>>

LrosNext == DistanceToLine \/ DistanceToRay \/ DistanceToSegment
SpecLros == LrosInit /\ [][LrosNext]_vars

\* C10: for a box from any constructor, distance_to_line, distance_to_ray
\* and distance_to_segment complete without error and return the least of
\* the primitive's distance_to_segment over the four edges of the box.
C10_MinOverEdges ==
    lres # <<>> =>
        /\ lres[1].raised = ""
        /\ lres[1].value =
              SetMin({lros_distance_to_segment(lcall.lros, e) : e \in EdgeSet(lbox)})

=============================================================================
